---- MODULE Spec2Model ----
(***************************************************************************)
(* Model of the skinned-mesh narrow phase of hdtSMP64                      *)
(* (hdtSkinnedMesh/hdtSkinnedMeshAlgorithm.cpp): the bounded result sink,  *)
(* the geometry checkers, the per-pair refiner in its two variants, the    *)
(* parallel pair dispatcher, the merge buffer and the manifold emitter.    *)
(*                                                                         *)
(* Geometry is one-dimensional and integer valued: a position is an        *)
(* integer, a box is a closed interval, a normal is -1 or 1.  Lengths and  *)
(* depths are counted in units of FLT_EPSILON.                             *)
(***************************************************************************)
EXTENDS Integers, Sequences, FiniteSets, TLC

VARIABLES
    world,        \* the inputs of the run: bodies, shapes, trees, coarse pairs
    algo,         \* the live algorithm object's template parameters: SwapResults, T
    numResults,   \* CollisionCheckBase1::numResults (std::atomic_long)
    results,      \* CollisionCheckBase1::results, the CollisionResult array
    wk,           \* per worker thread: position in func/addResult and its locals
    todo,         \* jobs (coarse pairs, or direct addResult calls) not yet started
    calls,        \* history: every addResult call that has returned
    wrote,        \* history: every write to a slot of results
    checked,      \* history: every (pair, i, j) handed to checkCollide
    ret,          \* value returned by CollisionCheckAlgorithm::operator()
    merge,        \* MergeBuffer: the bone x bone table of Merge Cells
    manifold,     \* points added through the dispatcher's manifolds
    pc            \* position of the calling thread in processCollision

vars == <<world, algo, numResults, results, wk, todo, calls, wrote,
          checked, ret, merge, manifold, pc>>

(***************************************************************************)
(* Bounds of the model.                                                    *)
(***************************************************************************)
MaxCollisionCount == 2
NumWorkers == 2
MaxCalls == 4

Workers == 1..NumWorkers
Slots == 0..(MaxCollisionCount - 1)

\* Absolute value, minimum, maximum.
Abs(x) == IF x < 0 THEN -x ELSE x
Min2(x, y) == IF x < y THEN x ELSE y
Max2(x, y) == IF x > y THEN x ELSE y

(***************************************************************************)
(* Contact results and the bounded result sink.                            *)
(***************************************************************************)
\* A slot of the array that no addResult has written.
Unwritten == [unwritten |-> TRUE]

\* A Collider* is modelled by where it points: the body, which of the body's
\* shapes ("v" the per-vertex shape, "t" the per-triangle shape), the tree
\* node, and the index into that node's cbuf.
ColliderRef(body, shape, tree, idx) ==
    [body |-> body, shape |-> shape, tree |-> tree, idx |-> idx]

CollisionResult(pa, pb, ca, cb, n, d) ==
    [posA |-> pa, posB |-> pb, colliderA |-> ca, colliderB |-> cb,
     normOnB |-> n, depth |-> d]

\* numResults.fetch_add(1): the value left in the counter.
MutFetchAddNoIncrement(n) == n
FetchAddNew(n) == n + 1

\* p < SkinnedMeshAlgorithm::MaxCollisionCount
MutSlotInCapacityOffByOne(p) == p <= MaxCollisionCount
SlotInCapacity(p) == p < MaxCollisionCount

\* CollisionCheckBase2<T,false>::addResult: results[p] = res.
StorePlain(res) == res

\* CollisionCheckBase2<T,true>::addResult: the six field assignments.
MutStoreSwappedKeepsNormal(res) ==
    [posA |-> res.posB, posB |-> res.posA,
     colliderA |-> res.colliderB, colliderB |-> res.colliderA,
     normOnB |-> res.normOnB, depth |-> res.depth]
StoreSwapped(res) ==
    [posA |-> res.posB, posB |-> res.posA,
     colliderA |-> res.colliderB, colliderB |-> res.colliderA,
     normOnB |-> -res.normOnB, depth |-> res.depth]

StoredEntry(swap, res) == IF swap THEN StoreSwapped(res) ELSE StorePlain(res)

\* listA.clear(); listB.clear();  (list.clear() in e_CPU)
MutClearedKeeps(l) == l
Cleared(l) == <<>>

\* A worker that is in neither func nor addResult; its scratch lists are empty.
IdleWorker == [pc |-> "idle", job |-> 0, res |-> Unwritten, p |-> -1,
               listA |-> <<>>, listB |-> <<>>]

\* The worker back from addResult and at the end of func: lines 293-294.
Returned(w) ==
    [IdleWorker EXCEPT !.listA = Cleared(wk[w].listA), !.listB = Cleared(wk[w].listB)]

\* addResult, first half: int p = numResults.fetch_add(1); if (p < Max) ...
\* else return false (back in the caller, whose scratch lists are then cleared).
FetchAdd(w) ==
    /\ wk[w].pc = "fetch"
    /\ LET p == numResults IN
        /\ numResults' = FetchAddNew(numResults)
        /\ IF SlotInCapacity(p)
             THEN /\ wk' = [wk EXCEPT ![w].pc = "store", ![w].p = p]
                  /\ calls' = calls
             ELSE /\ wk' = [wk EXCEPT ![w] = Returned(w)]
                  /\ calls' = calls \cup
                        {[pass |-> algo.pass, job |-> wk[w].job, res |-> wk[w].res,
                          ret |-> FALSE, p |-> p]}
    /\ UNCHANGED <<world, algo, results, todo, wrote, checked, ret,
                   merge, manifold, pc>>

\* addResult, second half: results[p] = res (relabelled when SwapResults);
\* return true.
Store(w) ==
    /\ wk[w].pc = "store"
    /\ LET e == StoredEntry(algo.swap, wk[w].res) IN
        /\ results' = [results EXCEPT ![wk[w].p] = e]
        /\ wrote' = wrote \cup {[pass |-> algo.pass, job |-> wk[w].job,
                                  slot |-> wk[w].p, entry |-> e]}
    /\ calls' = calls \cup
          {[pass |-> algo.pass, job |-> wk[w].job, res |-> wk[w].res,
            ret |-> TRUE, p |-> wk[w].p]}
    /\ wk' = [wk EXCEPT ![w] = Returned(w)]
    /\ UNCHANGED <<world, algo, numResults, todo, checked, ret,
                   merge, manifold, pc>>

(***************************************************************************)
(* Axis-aligned boxes (struct Aabb; its header is not among the sources).  *)
(***************************************************************************)
\* FLT_MAX, as far as boxes are concerned.
BoxInf == 99

Box(lo, hi) == [lo |-> lo, hi |-> hi]

\* Aabb::invalidate, and a default-constructed Aabb: the empty box.
InvalidBox == Box(BoxInf, -BoxInf)

\* Aabb::collideWith: the closed intervals meet.
CollideWith(a, b) == a.lo <= b.hi /\ b.lo <= a.hi

\* Aabb::merge: the hull of the two boxes.
MergeBox(a, b) == Box(Min2(a.lo, b.lo), Max2(a.hi, b.hi))

(***************************************************************************)
(* The algorithm object: CollisionCheckBase1's members, as set by its      *)
(* constructor from the shapes (a, b).  checkCollide(PerTriangleShape* a,  *)
(* PerVertexShape* b) builds the object from (b, a) with SwapResults, so   *)
(* the object's first shape is body 1's per-vertex shape in that case.     *)
(***************************************************************************)
ObjA == IF algo.swap THEN 1 ELSE 0
ObjB == 1 - ObjA
ShapeB == IF algo.T = "triangle" THEN "t" ELSE "v"

v0 == world.vpos[ObjA]
v1 == world.vpos[ObjB]
sp0 == world.vshape[ObjA]
sp1 == IF algo.T = "triangle" THEN world.tshape[ObjB] ELSE world.vshape[ObjB]

\* ColliderTree nodes of c0 and c1 that coarse pair entries point to.
TreeA(t) == sp0.trees[t]
TreeB(t) == sp1.trees[t]

\* What a Collider* points to.
Deref(r) ==
    IF r.shape = "t" THEN world.tshape[r.body].trees[r.tree].cbuf[r.idx]
    ELSE world.vshape[r.body].trees[r.tree].cbuf[r.idx]

(***************************************************************************)
(* Geometry checkers.                                                      *)
(***************************************************************************)
Sign(x) == IF x < 0 THEN -1 ELSE 1

\* checkSphereSphere(a, b, ra, rb, res): overlap iff |b-a| < ra+rb, depth
\* |b-a| - (ra+rb), normal from a to b.  A coincident pair is degenerate:
\* world.degenerateHits says whether it is reported (with the normal's
\* direction then arbitrary) or treated as no contact.
CheckSphereSphere(a, b, ra, rb) ==
    LET d == Abs(b - a)
        n == Sign(b - a)
    IN  [ret |-> d < ra + rb /\ (d > 0 \/ world.degenerateHits),
         res |-> CollisionResult(a + n * ra, b - n * rb, Unwritten, Unwritten,
                                 n, d - (ra + rb))]

\* CollisionChecker<PerVertexShape,SwapResults>::checkCollide(a, b, res).
\* Both spheres are read from v0[a->vertex], both radii from sp0->margin.
CheckCollideVertex(a, b, ra, rb) ==
    LET s0 == v0[a.vertex]
        r0 == s0.mult * sp0.margin
        s1 == v0[a.vertex]
        r1 == s1.mult * sp0.margin
        out == CheckSphereSphere(s0.pos, s1.pos, r0, r1)
    IN  [ret |-> out.ret,
         res |-> [out.res EXCEPT !.colliderA = ra, !.colliderB = rb]]

\* CheckTriangle(p0, p1, p2, margin, penetration): in one dimension the
\* triangle is the segment its vertices span; it is valid iff the segment
\* has an extent.
CheckTriangle(p0, p1, p2, margin, penetration) ==
    LET lo == Min2(p0, Min2(p1, p2))
        hi == Max2(p0, Max2(p1, p2))
    IN  [lo |-> lo, hi |-> hi, valid |-> lo < hi,
         margin |-> margin, penetration |-> penetration]

\* checkSphereTriangle(s, r, tri, res): separation of the sphere from the
\* triangle dilated by its margin.
CheckSphereTriangle(s, r, tri) ==
    LET q == IF s < tri.lo THEN tri.lo ELSE IF s > tri.hi THEN tri.hi ELSE s
        d == Abs(q - s)
        n == Sign(q - s)
    IN  [ret |-> d < r + tri.margin,
         res |-> CollisionResult(s + n * r, q - n * tri.margin, Unwritten,
                                 Unwritten, n, d - (r + tri.margin))]

\* if (!tri.valid) return false;
MutTriangleRejectedNever(tri) == FALSE
TriangleRejected(tri) == ~tri.valid

\* CollisionChecker<PerTriangleShape,SwapResults>::checkCollide(a, b, res).
CheckCollideTriangle(a, b, ra, rb) ==
    LET s == v0[a.vertex]
        r == s.mult * sp0.margin
        p0 == v1[b.vertices[1]]
        p1 == v1[b.vertices[2]]
        p2 == v1[b.vertices[3]]
        margin == (p0.mult + p1.mult + p2.mult) \div 3
        penetration == sp1.penetration * margin
        tri == CheckTriangle(p0.pos, p1.pos, p2.pos, margin * sp1.margin, penetration)
        out == CheckSphereTriangle(s.pos, r, tri)
    IN  IF TriangleRejected(tri)
          THEN [ret |-> FALSE, res |-> Unwritten]
          ELSE [ret |-> out.ret,
                res |-> [out.res EXCEPT !.colliderA = ra, !.colliderB = rb]]

\* checkCollide of the live object: the specialisation for its T.
CheckCollide(a, b, ra, rb) ==
    IF algo.T = "triangle" THEN CheckCollideTriangle(a, b, ra, rb)
    ELSE CheckCollideVertex(a, b, ra, rb)

(***************************************************************************)
(* The per-pair function (the lambda func of operator()) in its two        *)
(* variants, and CollisionCheckDispatcher::dispatch.                       *)
(***************************************************************************)
\* The indices 1..n in scan order.
ScanSeq(n) == [k \in 1..n |-> k]

\* Aabb::merge over the boxes of the listed indices, from the empty box.
RECURSIVE MergeAll(_, _, _)
MergeAll(boxes, list, k) ==
    IF k = 0 THEN InvalidBox
    ELSE MergeBox(MergeAll(boxes, list, k - 1), boxes[list[k]])

\* asize = b->isKinematic ? a->dynCollider : a->numCollider (and bsize alike).
MutScanSizeIgnoresKinematic(t, other) == t.numCollider
ScanSize(t, other) == IF other.isKinematic THEN t.dynCollider ELSE t.numCollider

\* if (numResults >= SkinnedMeshAlgorithm::MaxCollisionCount) return;
SinkFull(n) == n >= MaxCollisionCount

\* if (!i->collideWith(*j)) continue;  -- the test in front of checkCollide.
MutBoxesMeetAlways(a, b, i, j) == TRUE
BoxesMeet(a, b, i, j) == CollideWith(a.aabb[i], b.aabb[j])

\* The pairs (i, j) of an outer and an inner list, outer-major.
RECURSIVE CrossSeq(_, _, _)
CrossSeq(outer, inner, k) ==
    IF k = 0 THEN <<>>
    ELSE CrossSeq(outer, inner, k - 1) \o
         [m \in 1..Len(inner) |-> <<outer[k], inner[m]>>]

\* e_CPURefactored, lines 240-288: the three tightening scans.  listA and
\* listB are the thread_local scratch lists as dispatch receives them.
TightenRefactored(a, b) ==
    LET asize == ScanSize(a, b)
        bsize == ScanSize(b, a)
        listA1 == SelectSeq(ScanSeq(asize), LAMBDA i : CollideWith(a.aabb[i], b.aabbMe))
        aabbA == MergeAll(a.aabb, listA1, Len(listA1))
        listB == IF Len(listA1) > 0
                   THEN SelectSeq(ScanSeq(bsize), LAMBDA j : CollideWith(b.aabb[j], aabbA))
                   ELSE <<>>
        aabbB == IF Len(listA1) > 0 THEN MergeAll(b.aabb, listB, Len(listB))
                 ELSE b.aabbMe
        listA == IF Len(listB) > 0
                   THEN SelectSeq(listA1, LAMBDA i : CollideWith(a.aabb[i], aabbB))
                   ELSE listA1
    IN  [listA |-> listA, listB |-> listB]

\* dispatch, lines 181-199: the pairs its two loops visit, in order.
DispatchOrder(listA, listB) ==
    IF Len(listA) > 0 /\ Len(listB) > 0 THEN CrossSeq(listA, listB, Len(listA))
    ELSE <<>>

\* e_CPU, lines 342-399: the scratch list and the pairs (i, j) the loops
\* visit, in order; j outer when asize <= bsize.
ScanCPU(a, b) ==
    LET asize == ScanSize(a, b)
        bsize == ScanSize(b, a)
        inB == SelectSeq(ScanSeq(bsize), LAMBDA j : CollideWith(b.aabb[j], a.aabbMe))
        inA == SelectSeq(ScanSeq(asize), LAMBDA i : CollideWith(a.aabb[i], b.aabbMe))
        swapPair(s) == [m \in 1..Len(s) |-> <<s[m][2], s[m][1]>>]
    IN  IF asize > bsize
          THEN [list |-> inB, order |-> CrossSeq(inA, inB, Len(inA))]
          ELSE [list |-> inA, order |-> swapPair(CrossSeq(inB, inA, Len(inB)))]

\* if (!hasResult || result.depth > temp.depth)
MutDeeperKeepsShallowest(hasResult, result, temp) ==
    ~hasResult \/ result.depth < temp.depth
Deeper(hasResult, result, temp) == ~hasResult \/ result.depth > temp.depth

\* The loop body shared by dispatch and the e_CPU loops, over the first k
\* visited pairs: the box test, checkCollide, and the running best result.
\* tests lists every pair handed to checkCollide with what it returned.
RECURSIVE Scan(_, _, _, _, _, _)
Scan(a, b, ta, tb, order, k) ==
    IF k = 0 THEN [hasResult |-> FALSE, result |-> Unwritten, tests |-> {}]
    ELSE LET acc == Scan(a, b, ta, tb, order, k - 1)
             i == order[k][1]
             j == order[k][2]
             out == CheckCollide(a.cbuf[i], b.cbuf[j],
                                 ColliderRef(ObjA, "v", ta, i),
                                 ColliderRef(ObjB, ShapeB, tb, j))
         IN  IF ~BoxesMeet(a, b, i, j) THEN acc
             ELSE LET t == acc.tests \cup
                           {[i |-> i, j |-> j, ret |-> out.ret,
                             depth |-> IF out.ret THEN out.res.depth ELSE 0]}
                  IN  IF out.ret /\ Deeper(acc.hasResult, acc.result, out.res)
                        THEN [hasResult |-> TRUE, result |-> out.res, tests |-> t]
                        ELSE [acc EXCEPT !.tests = t]

\* func of either variant past its guard, for the coarse pair (ta, tb): the
\* scratch lists at the time addResult is called, and the best result of
\* the pair.
FuncOf(alg, ta, tb) ==
    LET a == TreeA(ta)
        b == TreeB(tb)
    IN  IF alg = "e_CPU"
          THEN LET s == ScanCPU(a, b)
                   r == Scan(a, b, ta, tb, s.order, Len(s.order))
               IN  [listA |-> <<>>, listB |-> <<>>, scanned |-> s.list,
                    hasResult |-> r.hasResult, result |-> r.result, tests |-> r.tests]
          ELSE LET l == TightenRefactored(a, b)
                   o == DispatchOrder(l.listA, l.listB)
                   r == Scan(a, b, ta, tb, o, Len(o))
               IN  [listA |-> l.listA, listB |-> l.listB, scanned |-> l.listA \o l.listB,
                    hasResult |-> r.hasResult, result |-> r.result, tests |-> r.tests]

\* func of the variant the algorithm object is instantiated with.
Func(ta, tb) == FuncOf(world.alg, ta, tb)

(***************************************************************************)
(* CollisionCheckAlgorithm::operator(): the fan-out over the coarse pairs. *)
(***************************************************************************)
\* pairs, as c0->checkCollisionL(c1, pairs) fills it for the live pass.
Pairs == world.pairs[algo.pass]

\* pairs.size() >= std::thread::hardware_concurrency()
Parallel == Len(Pairs) >= NumWorkers

\* The pairs a thread may take next: any under parallel_for_each, the next
\* in order for the calling thread otherwise.
NextJobs(w) ==
    IF Parallel THEN todo
    ELSE IF w = 1 /\ todo # {} THEN {CHOOSE x \in todo : \A y \in todo : x <= y}
    ELSE {}

\* func(pair) up to the call of addResult (or to its end, when it returns
\* early or finds nothing; its scratch lists are then clear again).
Start(w) ==
    /\ pc = "run"
    /\ wk[w].pc = "idle"
    /\ \E j \in NextJobs(w) :
        /\ todo' = todo \ {j}
        /\ IF SinkFull(numResults)
             THEN UNCHANGED <<wk, checked>>
             ELSE LET f == Func(Pairs[j][1], Pairs[j][2]) IN
                    /\ checked' = checked \cup
                          {[pass |-> algo.pass, job |-> j, i |-> t.i, j |-> t.j,
                            ret |-> t.ret, depth |-> t.depth] : t \in f.tests}
                    /\ IF f.hasResult
                         THEN wk' = [wk EXCEPT ![w] =
                                       [pc |-> "fetch", job |-> j, res |-> f.result,
                                        p |-> -1,
                                        listA |-> wk[w].listA \o f.listA,
                                        listB |-> wk[w].listB \o f.listB]]
                         ELSE wk' = [wk EXCEPT
                                       ![w].listA = Cleared(wk[w].listA \o f.listA),
                                       ![w].listB = Cleared(wk[w].listB \o f.listB)]
    /\ UNCHANGED <<world, algo, numResults, results, calls, wrote, ret,
                   merge, manifold, pc>>

\* return numResults;
MutReturnValueClamped(n) == Min2(n, MaxCollisionCount)
ReturnValue(n) == n

\* The workers have joined and operator() returns.
Join ==
    /\ pc = "run"
    /\ todo = {}
    /\ \A w \in Workers : wk[w].pc = "idle"
    /\ ret' = ReturnValue(numResults)
    /\ pc' = "merge"
    /\ UNCHANGED <<world, algo, numResults, results, wk, todo, calls, wrote,
                   checked, merge, manifold>>

(***************************************************************************)
(* MergeBuffer: doMerge and apply.                                         *)
(***************************************************************************)
\* FLT_EPSILON, the unit in which depths and weights are counted.
FLT_EPSILON == 1

ZeroCell == [weight |-> 0, normal |-> 0, posA |-> 0, posB |-> 0]

\* MergeBuffer::alloc(x, y): an x by y table of zeroed cells.
Alloc(x, y) == [c \in (1..x) \X (1..y) |-> ZeroCell]

\* m_skinnedBones of the body a shape belongs to (a is body 0's shape, b is
\* body 1's in doMerge(a, b, ...)).
Bones(body) == world.bones[body]

\* if (w0 <= ...m_skinnedBones[boneIdx0].weightThreshold) continue;
MutOverThresholdIncludesEqual(w, bone) == w >= bone.weightThreshold
OverThreshold(w, bone) == w > bone.weightThreshold

\* if (bone0.isKinematic && bone1.isKinematic) continue;
BothKinematic(b0, b1) == b0.isKinematic /\ b1.isKinematic

\* Lines 454-460: the sums added to the cell for one contact.
MutAddToCellUnsignedNormal(c, res, flexible) ==
    LET w == flexible * res.depth
        w2 == w * w
    IN  [weight |-> c.weight + w2,
         normal |-> c.normal + res.normOnB * Abs(w) * w2,
         posA |-> c.posA + res.posA * w2,
         posB |-> c.posB + res.posB * w2]
AddToCell(c, res, flexible) ==
    LET w == flexible * res.depth
        w2 == w * w
    IN  [weight |-> c.weight + w2,
         normal |-> c.normal + res.normOnB * w * w2,
         posA |-> c.posA + res.posA * w2,
         posB |-> c.posB + res.posB * w2]

\* auto c = get(boneIdx0, boneIdx1): the cell of the table that is updated.
MutGetTransposed(boneIdx0, boneIdx1) == <<boneIdx1, boneIdx0>>
Get(boneIdx0, boneIdx1) == <<boneIdx0, boneIdx1>>

\* Lines 438-462 for one contact: the two loops over the bone slots of
\* colliderA and colliderB, run over the first k slot pairs (ib-major).
RECURSIVE MergeSlots(_, _, _, _, _)
MergeSlots(m, res, flexible, slots, k) ==
    IF k = 0 THEN m
    ELSE LET prev == MergeSlots(m, res, flexible, slots, k - 1)
             sa == Deref(res.colliderA).bones[slots[k][1]]
             sb == Deref(res.colliderB).bones[slots[k][2]]
         IN  IF ~OverThreshold(sa.weight, Bones(0)[sa.idx]) THEN prev
             ELSE IF ~OverThreshold(sb.weight, Bones(1)[sb.idx]) THEN prev
             ELSE IF BothKinematic(Bones(0)[sa.idx], Bones(1)[sb.idx]) THEN prev
             ELSE [prev EXCEPT ![Get(sa.idx, sb.idx)] = AddToCell(@, res, flexible)]

MergeContact(m, res, flexible) ==
    LET na == Len(Deref(res.colliderA).bones)
        nb == Len(Deref(res.colliderB).bones)
        slots == CrossSeq(ScanSeq(na), ScanSeq(nb), na)
    IN  MergeSlots(m, res, flexible, slots, Len(slots))

\* if (res.depth >= -FLT_EPSILON) break;
MutShallowNever(res) == FALSE
Shallow(res) == res.depth >= -FLT_EPSILON

\* if (flexible < FLT_EPSILON) return;
Inflexible(flexible) == flexible < FLT_EPSILON

\* MergeBuffer::doMerge(a, b, collision, count), from contact i on.
RECURSIVE DoMergeFrom(_, _, _, _)
DoMergeFrom(m, collision, count, i) ==
    IF i >= count THEN m
    ELSE LET res == collision[i]
             flexible == Max2(Deref(res.colliderA).flexible,
                              Deref(res.colliderB).flexible)
         IN  IF Shallow(res) THEN m
             ELSE IF Inflexible(flexible) THEN m
             ELSE DoMergeFrom(MergeContact(m, res, flexible), collision, count, i + 1)

DoMerge(m, collision, count) == DoMergeFrom(m, collision, count, 0)

\* if (rb0 == rb1) continue;
MutSameRigidBodyNever(b0, b1) == FALSE
SameRigidBody(b0, b1) == b0.ptr = b1.ptr

\* normal.fuzzyZero() for normal = c->normal * invWeight.
FuzzyZero(c) == Abs(c.normal) < FLT_EPSILON * c.weight

\* depth >= -FLT_EPSILON for depth = -normal.length().
NotPenetrating(c) == Abs(c.normal) <= FLT_EPSILON * c.weight

\* The cells apply gets as far as getNewManifold for (lines 469-486).
ManifoldCells(m) ==
    { ij \in DOMAIN m :
        /\ Bones(0)[ij[1]].collidable
        /\ Bones(1)[ij[2]].collidable
        /\ ~(m[ij].weight < FLT_EPSILON)
        /\ ~BothKinematic(Bones(0)[ij[1]], Bones(1)[ij[2]])
        /\ ~SameRigidBody(Bones(0)[ij[1]], Bones(1)[ij[2]]) }

\* The btManifoldPoint added for a cell (lines 487-504): world positions,
\* unit normal and depth; the averages are kept as sum over weight.
ManifoldPoint(m, ij) ==
    [boneA |-> ij[1], boneB |-> ij[2],
     rb0 |-> Bones(0)[ij[1]].ptr, rb1 |-> Bones(1)[ij[2]].ptr,
     worldA |-> <<m[ij].posA, m[ij].weight>>,
     worldB |-> <<m[ij].posB, m[ij].weight>>,
     normal |-> -Sign(m[ij].normal),
     depth |-> <<-Abs(m[ij].normal), m[ij].weight>>]

\* MergeBuffer::apply(body0, body1, dispatcher): the manifolds requested
\* and the points added.
Apply(m) ==
    [requests |-> ManifoldCells(m),
     points |-> { ManifoldPoint(m, ij) :
                    ij \in { x \in ManifoldCells(m) :
                               ~FuzzyZero(m[x]) /\ ~NotPenetrating(m[x]) } }]

NoManifold == [requests |-> {}, points |-> {}]

(***************************************************************************)
(* SkinnedMeshAlgorithm::processCollision.                                 *)
(***************************************************************************)
\* Lines 524-537: the passes run for the two bodies' shape kinds, each with
\* the algorithm checkCollide instantiates for it (lines 416-425).
Passes ==
    IF world.kind[0] = "triangle" /\ world.kind[1] = "triangle"
      THEN << [swap |-> TRUE, T |-> "triangle"], [swap |-> FALSE, T |-> "triangle"] >>
    ELSE IF world.kind[0] = "triangle"
      THEN << [swap |-> TRUE, T |-> "triangle"] >>
    ELSE IF world.kind[1] = "triangle"
      THEN << [swap |-> FALSE, T |-> "triangle"] >>
    ELSE << [swap |-> FALSE, T |-> "vertex"] >>

PassAlgo(k) == [swap |-> Passes[k].swap, T |-> Passes[k].T, pass |-> k]

\* CollisionCheckBase1's constructor: numResults = 0, whatever the counter
\* of the previous pass's object held.
MutConstructedKeepsCount(n) == n
Constructed(n) == 0

\* checkCollide(shape0, shape1, collision): the algorithm object is built
\* (numResults = 0) and operator() collects the coarse pairs; with none it
\* returns 0 at once.
BeginPass ==
    /\ pc = "start"
    /\ algo' = PassAlgo(algo.pass + 1)
    /\ numResults' = Constructed(numResults)
    /\ LET n == Len(world.pairs[algo.pass + 1]) IN
        IF n = 0
          THEN /\ ret' = 0
               /\ pc' = "merge"
               /\ todo' = {}
          ELSE /\ ret' = ret
               /\ pc' = "run"
               /\ todo' = 1..n
    /\ UNCHANGED <<world, results, wk, calls, wrote, checked, merge, manifold>>

\* int count = std::min(checkCollide(...), MaxCollisionCount);
Count(r) == Min2(r, MaxCollisionCount)

\* processCollision<T0,T1>, lines 512-514, and the step to the next pass or
\* to apply.
Merge ==
    /\ pc = "merge"
    /\ merge' = IF Count(ret) > 0 THEN DoMerge(merge, results, Count(ret)) ELSE merge
    /\ pc' = IF algo.pass < Len(Passes) THEN "start" ELSE "apply"
    /\ UNCHANGED <<world, algo, numResults, results, wk, todo, calls, wrote,
                   checked, ret, manifold>>

\* delete[] collision; merge.apply(body0, body1, dispatcher); merge.release();
ApplyStep ==
    /\ pc = "apply"
    /\ manifold' = Apply(merge)
    /\ pc' = "done"
    /\ UNCHANGED <<world, algo, numResults, results, wk, todo, calls, wrote,
                   checked, ret, merge>>

(***************************************************************************)
(* Inputs: vertex buffers, colliders and collider trees.                   *)
(***************************************************************************)
MaxColliders == 2

\* m_vpos of the body whose per-vertex shape is scanned, and of the other.
VPosPoint == << [pos |-> 1, mult |-> 1], [pos |-> 2, mult |-> 2],
                [pos |-> 4, mult |-> 1] >>
VPosOther == << [pos |-> 0, mult |-> 1], [pos |-> 2, mult |-> 1],
                [pos |-> 3, mult |-> 1], [pos |-> 4, mult |-> 1] >>

\* A collider with its box: vertex for a point, vertices for a triangle,
\* the flexible coefficient, and per bone slot the bone index and weight.
Collider(box, vertex, vertices, flexible, bones) ==
    [box |-> box, vertex |-> vertex, vertices |-> vertices,
     flexible |-> flexible, bones |-> bones]

PointKindSeq ==
    << Collider(Box(0, 1), 1, <<1, 1, 1>>, 1, << [idx |-> 1, weight |-> 2] >>),
       Collider(Box(2, 2), 2, <<2, 2, 2>>, 1, << [idx |-> 1, weight |-> 2] >>),
       Collider(Box(4, 4), 3, <<3, 3, 3>>, 0, << [idx |-> 2, weight |-> 2] >>) >>
PointKinds == { PointKindSeq[k] : k \in 1..Len(PointKindSeq) }

OtherKindSeq ==
    << Collider(Box(0, 0), 1, <<1, 1, 1>>, 1, << [idx |-> 1, weight |-> 2] >>),
       Collider(Box(1, 3), 2, <<2, 3, 3>>, 1, << [idx |-> 1, weight |-> 2] >>),
       Collider(Box(3, 4), 3, <<3, 4, 4>>, 0, << [idx |-> 2, weight |-> 2] >>) >>
OtherKinds == { OtherKindSeq[k] : k \in 1..Len(OtherKindSeq) }

\* A ColliderTree node over the listed colliders: aabb and cbuf run in
\* parallel, aabbMe is the hull of the node's boxes.
Tree(cs, dyn, kin) ==
    LET boxes == [k \in 1..Len(cs) |-> cs[k].box] IN
    [aabb |-> boxes, cbuf |-> cs, numCollider |-> Len(cs), dynCollider |-> dyn,
     isKinematic |-> kin,
     aabbMe |-> MergeAll(boxes, ScanSeq(Len(cs)), Len(cs))]

\* The nodes over up to MaxColliders different colliders of the given
\* kinds, in any order: a kinematic node has no dynamic collider, another
\* has all or all but one.
TreesOver(kinds) ==
    UNION { { Tree(cs, Len(cs), FALSE), Tree(cs, Len(cs) - 1, FALSE), Tree(cs, 0, TRUE) }
            : cs \in UNION { { f \in [1..n -> kinds] :
                                  \A x, y \in 1..n : f[x] = f[y] => x = y }
                              : n \in 1..MaxColliders } }

\* A Skinned Bone Entry; collidable stands for the other body's
\* canCollideWith(ptr).
Bone(kin, ptr, collidable) ==
    [weightThreshold |-> 1, isKinematic |-> kin, ptr |-> ptr,
     collidable |-> collidable]

NoShape == [margin |-> 0, penetration |-> 0, trees |-> <<>>]
NoBones == [x \in {0, 1} |-> <<>>]

\* The inputs of processCollision for two bodies of which body 1 - oa may
\* be a per-triangle shape: vp and mp are the vertex buffer and margin of
\* the scanned per-vertex shape, vo and mo those of the other shape, ta and
\* tb their tree nodes, ps the coarse pairs checkCollisionL reports.
BuildWorld(swap, T, hits, alg, vp, vo, mp, mo, ta, tb, ps, bones) ==
    LET oa == IF swap THEN 1 ELSE 0 IN
    [kind |-> [x \in {0, 1} |-> IF x # oa /\ T = "triangle" THEN "triangle"
                                 ELSE "vertex"],
     degenerateHits |-> hits, alg |-> alg,
     vpos |-> [x \in {0, 1} |-> IF x = oa THEN vp ELSE vo],
     vshape |-> [x \in {0, 1} |->
                   IF x = oa THEN [margin |-> mp, penetration |-> 0, trees |-> ta]
                   ELSE IF T = "vertex"
                          THEN [margin |-> mo, penetration |-> 0, trees |-> tb]
                          ELSE NoShape],
     tshape |-> [x \in {0, 1} |->
                   IF x # oa /\ T = "triangle"
                     THEN [margin |-> mo, penetration |-> 1, trees |-> tb]
                     ELSE NoShape],
     pairs |-> << ps >>,
     bones |-> bones]

PassWorld(swap, T, hits, alg, ta, tb, ps, bones) ==
    BuildWorld(swap, T, hits, alg, VPosPoint, VPosOther, 1, 1, ta, tb, ps, bones)

\* Template instantiations of the algorithm, and what a degenerate sphere
\* pair yields for the sphere-sphere one.
Modes ==
    { [swap |-> FALSE, T |-> "vertex", hits |-> TRUE],
      [swap |-> FALSE, T |-> "vertex", hits |-> FALSE],
      [swap |-> FALSE, T |-> "triangle", hits |-> FALSE],
      [swap |-> TRUE, T |-> "triangle", hits |-> FALSE] }

Algorithms == {"e_CPURefactored", "e_CPU"}

\* A contact left in the array by earlier pairs of the same pass.
Filler == CollisionResult(0, 0, ColliderRef(0, "v", 1, 1), ColliderRef(1, "v", 1, 1), 1, -2)

(***************************************************************************)
(* SpecRefine: func runs once, on one coarse pair, with the sink either    *)
(* empty or already full.                                                  *)
(***************************************************************************)
RefineWorlds ==
    { PassWorld(m.swap, m.T, m.hits, alg, <<ta>>, <<tb>>, << <<1, 1>> >>, NoBones)
        : m \in Modes, alg \in Algorithms,
          ta \in TreesOver(PointKinds), tb \in TreesOver(OtherKinds) }

RefineInit ==
    /\ world \in RefineWorlds
    /\ algo = PassAlgo(1)
    /\ numResults \in {0, MaxCollisionCount}
    /\ results = [s \in Slots |-> IF numResults = 0 THEN Unwritten ELSE Filler]
    /\ wk = [w \in Workers |-> IdleWorker]
    /\ todo = {1}
    /\ calls = {}
    /\ wrote = {}
    /\ checked = {}
    /\ ret = -1
    /\ merge = <<>>
    /\ manifold = NoManifold
    /\ pc = "run"

RefineNext == Join \/ \E w \in Workers : Start(w) \/ FetchAdd(w) \/ Store(w)

SpecRefine == RefineInit /\ [][RefineNext]_vars

\* The box that runs in parallel with the collider a Collider* points to.
BoxOf(r) ==
    IF r.shape = "t" THEN world.tshape[r.body].trees[r.tree].aabb[r.idx]
    ELSE world.vshape[r.body].trees[r.tree].aabb[r.idx]

\* C8: no contact is stored for two colliders whose boxes do not intersect;
\* in both variants checkCollide is handed (i, j) only when the box of i
\* intersects the box of j.
C8_NoContactWithoutBoxOverlap ==
    /\ \A c \in checked :
          CollideWith(TreeA(Pairs[c.job][1]).aabb[c.i], TreeB(Pairs[c.job][2]).aabb[c.j])
    /\ \A x \in wrote : CollideWith(BoxOf(x.entry.colliderA), BoxOf(x.entry.colliderB))

\* Witness of C8: a contact was stored for a pair in which some collider of
\* A and some collider of B have disjoint boxes although the geometry
\* checker would report them as overlapping.
C8_Witness ==
    /\ wrote # {}
    /\ \E i \in 1..TreeA(1).numCollider, j \in 1..TreeB(1).numCollider :
        /\ ~CollideWith(TreeA(1).aabb[i], TreeB(1).aabb[j])
        /\ CheckCollide(TreeA(1).cbuf[i], TreeB(1).cbuf[j],
                        ColliderRef(ObjA, "v", 1, i), ColliderRef(ObjB, ShapeB, 1, j)).ret

\* The pairs (i in A's scan range, j in B's scan range) of coarse pair 1
\* whose boxes intersect and which the geometry checker reports as
\* overlapping, each with the depth it reports.
OverlapsOfPair ==
    LET a == TreeA(1)
        b == TreeB(1)
        na == IF b.isKinematic THEN a.dynCollider ELSE a.numCollider
        nb == IF a.isKinematic THEN b.dynCollider ELSE b.numCollider
        chk(i, j) == CheckCollide(a.cbuf[i], b.cbuf[j], ColliderRef(ObjA, "v", 1, i),
                                  ColliderRef(ObjB, ShapeB, 1, j))
    IN  { [i |-> ij[1], j |-> ij[2], depth |-> chk(ij[1], ij[2]).res.depth]
            : ij \in { x \in (1..na) \X (1..nb) :
                         /\ CollideWith(a.aabb[x[1]], b.aabb[x[2]])
                         /\ chk(x[1], x[2]).ret } }

\* The contacts func handed to addResult for coarse pair 1.
Submitted == {c \in calls : c.job = 1}

\* The value of the counter when func read it in its guard (one pair, one
\* thread: the counter has since grown by the calls made).
CounterAtStart == numResults - Cardinality(calls)

BestOfPair ==
    /\ Cardinality(Submitted) <= 1
    /\ \A c \in Submitted :
          /\ \E o \in OverlapsOfPair : o.depth = c.res.depth
          /\ \A o \in OverlapsOfPair : c.res.depth <= o.depth

\* C9 as stated: once func has returned, at most one contact was submitted
\* for the pair, its depth is the least over the overlapping pairs, and
\* none was submitted iff no pair overlaps.
C9_Original ==
    pc = "merge" =>
        /\ BestOfPair
        /\ (Submitted = {} <=> OverlapsOfPair = {})

\* C9 as amended: the same, for a pair func starts on while the counter is
\* below MaxCollisionCount; a pair started with the counter at
\* MaxCollisionCount or above submits nothing.
C9_BestOfPairUnlessFull ==
    pc = "merge" =>
        /\ BestOfPair
        /\ (CounterAtStart < MaxCollisionCount =>
                (Submitted = {} <=> OverlapsOfPair = {}))
        /\ (CounterAtStart >= MaxCollisionCount => Submitted = {})

\* Witness of C9: func ran with room in the sink, several pairs overlap at
\* different depths, and one contact was submitted.
C9_Witness ==
    /\ pc = "merge"
    /\ world.alg = "e_CPURefactored"
    /\ CounterAtStart < MaxCollisionCount
    /\ Submitted # {}
    /\ \E o1 \in OverlapsOfPair, o2 \in OverlapsOfPair : o1.depth < o2.depth

(***************************************************************************)
(* SpecMerge: doMerge and apply on a contact array of every content, for   *)
(* every choice of kinematic bones and shared rigid bodies.                *)
(***************************************************************************)
\* Colliders of body 0 and body 1: two bone slots each.
MergeCollidersA ==
    << Collider(Box(0, 1), 1, <<1, 1, 1>>, 1,
                << [idx |-> 1, weight |-> 2], [idx |-> 2, weight |-> 1] >>),
       Collider(Box(0, 1), 1, <<1, 1, 1>>, 0,
                << [idx |-> 1, weight |-> 2], [idx |-> 2, weight |-> 2] >>),
       Collider(Box(0, 1), 1, <<1, 1, 1>>, 2,
                << [idx |-> 2, weight |-> 2], [idx |-> 1, weight |-> 0] >>) >>
MergeCollidersB ==
    << Collider(Box(0, 1), 1, <<1, 1, 1>>, 1,
                << [idx |-> 1, weight |-> 2], [idx |-> 2, weight |-> 0] >>),
       Collider(Box(0, 1), 1, <<1, 1, 1>>, 0,
                << [idx |-> 1, weight |-> 2], [idx |-> 2, weight |-> 2] >>) >>

MergeContact0(ia, ib, n, d) ==
    CollisionResult(1, 0, ColliderRef(0, "v", 1, ia), ColliderRef(1, "v", 1, ib), n, d)

\* A deep contact, one between inflexible colliders, one within epsilon of
\* touching, one with the opposite normal, and one on other bones.
MergeContacts ==
    { MergeContact0(1, 1, 1, -2), MergeContact0(2, 2, 1, -3),
      MergeContact0(1, 1, 1, -1), MergeContact0(1, 1, -1, -2),
      MergeContact0(3, 2, 1, -3) }

\* m_skinnedBones of the two bodies: any bone kinematic or not, bone 1 of
\* body 1 on its own rigid body or on the one of body 0's bone 1, bone 1 of
\* body 0 collidable with body 1 or not.
MergeBones ==
    { [x \in {0, 1} |->
         IF x = 0 THEN << Bone(k[1], 1, c), Bone(k[2], 2, TRUE) >>
         ELSE << Bone(k[3], p, TRUE), Bone(k[4], 4, TRUE) >>]
        : k \in [1..4 -> BOOLEAN], p \in {1, 3}, c \in BOOLEAN }

MergeWorlds ==
    { PassWorld(FALSE, "vertex", FALSE, "e_CPURefactored",
                << Tree(MergeCollidersA, Len(MergeCollidersA), FALSE) >>,
                << Tree(MergeCollidersB, Len(MergeCollidersB), FALSE) >>,
                <<>>, b) : b \in MergeBones }

\* The arrays the narrow phase can leave: the first n slots written.
ContactArrays ==
    UNION { { [s \in Slots |-> IF s < n THEN f[s + 1] ELSE Unwritten]
                : f \in [1..n -> MergeContacts] } : n \in 0..MaxCollisionCount }

Written(arr) == Cardinality({s \in Slots : arr[s] # Unwritten})

MergeInit ==
    /\ world \in MergeWorlds
    /\ algo = PassAlgo(1)
    /\ results \in ContactArrays
    /\ numResults \in {Written(results)} \cup
                      (IF Written(results) = MaxCollisionCount
                         THEN {MaxCollisionCount + 1} ELSE {})
    /\ ret = numResults
    /\ wk = [w \in Workers |-> IdleWorker]
    /\ todo = {}
    /\ calls = {}
    /\ wrote = {}
    /\ checked = {}
    /\ merge = Alloc(Len(world.bones[0]), Len(world.bones[1]))
    /\ manifold = NoManifold
    /\ pc = "merge"

MergeNext == Merge \/ ApplyStep

SpecMerge == MergeInit /\ [][MergeNext]_vars

\* The bijections of 0..n-1, and an array with its first n slots permuted.
Perms(n) == { f \in [0..(n - 1) -> 0..(n - 1)] :
                \A x, y \in 0..(n - 1) : f[x] = f[y] => x = y }
Permuted(arr, f, n) == [s \in DOMAIN arr |-> IF s < n THEN arr[f[s]] ELSE arr[s]]

\* C4: the order of the accepted contacts in the array does not matter:
\* doMerge leaves every Merge Cell as it would for any permutation of them.
C4_MergeOrderIndependent ==
    pc = "apply" =>
        \A f \in Perms(Count(ret)) :
            merge = DoMerge(Alloc(Len(world.bones[0]), Len(world.bones[1])),
                            Permuted(results, f, Count(ret)), Count(ret))

\* C10: no manifold point is added for a bone pair with both bones
\* kinematic, nor for one whose bones are on the same rigid body.
C10_NoKinematicOrSelfPoints ==
    \A pt \in manifold.points :
        /\ ~(world.bones[0][pt.boneA].isKinematic /\ world.bones[1][pt.boneB].isKinematic)
        /\ world.bones[0][pt.boneA].ptr # world.bones[1][pt.boneB].ptr

\* Witness of C10: apply has added a point, and has passed over a cell that
\* contacts contributed to whose two bones share a rigid body, in a world
\* with two kinematic bones facing each other.
C10_Witness ==
    /\ pc = "done"
    /\ manifold.points # {}
    /\ \E ij \in DOMAIN merge :
          /\ merge[ij].weight > 0
          /\ world.bones[0][ij[1]].ptr = world.bones[1][ij[2]].ptr
    /\ \E i \in 1..Len(world.bones[0]), j \in 1..Len(world.bones[1]) :
          world.bones[0][i].isKinematic /\ world.bones[1][j].isKinematic

(***************************************************************************)
(* SpecSink: NumWorkers threads call addResult on one sink, MaxCalls calls *)
(* in all, each with a contact of SinkContacts.                            *)
(***************************************************************************)
SinkContacts ==
    { CollisionResult(0, 1, ColliderRef(0, "v", 1, i), ColliderRef(1, "v", 1, 1),
                      1, -1 - i) : i \in 1..2 }

SinkInit ==
    /\ world = [kind |-> "sink"]
    /\ algo \in {[swap |-> sw, T |-> "vertex", pass |-> 1] : sw \in BOOLEAN}
    /\ numResults = 0
    /\ results = [s \in Slots |-> Unwritten]
    /\ wk = [w \in Workers |-> IdleWorker]
    /\ todo = 1..MaxCalls
    /\ calls = {}
    /\ wrote = {}
    /\ checked = {}
    /\ ret = -1
    /\ merge = <<>>
    /\ manifold = NoManifold
    /\ pc = "sink"

\* A thread enters addResult(res).
SinkCall(w) ==
    /\ pc = "sink"
    /\ wk[w].pc = "idle"
    /\ todo # {}
    /\ LET j == CHOOSE x \in todo : \A y \in todo : x <= y IN
        /\ todo' = todo \ {j}
        /\ \E res \in SinkContacts :
              wk' = [wk EXCEPT ![w].pc = "fetch", ![w].job = j, ![w].res = res]
    /\ UNCHANGED <<world, algo, numResults, results, calls, wrote,
                   checked, ret, merge, manifold, pc>>

SinkNext == \E w \in Workers : SinkCall(w) \/ FetchAdd(w) \/ Store(w)

SpecSink == SinkInit /\ [][SinkNext]_vars

\* Every thread has returned from addResult.
AllJoined == \A w \in Workers : wk[w].pc = "idle"

Accepted == {c \in calls : c.ret}

\* C1: under every interleaving the number of addResult calls that return
\* true never exceeds MaxCollisionCount and no call writes a slot at index
\* MaxCollisionCount or above.
C1_AcceptedBounded ==
    /\ Cardinality(Accepted) <= MaxCollisionCount
    /\ \A x \in wrote : x.slot \in Slots

\* Witness of C1: more calls were made than the sink holds, the sink is
\* full and a call has been turned away.
C1_Witness ==
    /\ Cardinality(Accepted) = MaxCollisionCount
    /\ \E c \in calls : ~c.ret
    /\ numResults > MaxCollisionCount

\* C2: each call that returns true stores its contact in a slot no other
\* call writes, a call that returns false writes nothing, and once every
\* thread has returned the slots 0..k-1 hold the k accepted contacts (as
\* given, or relabelled by the swapping variant) and no other slot is
\* written, k being the number of calls that returned true.
C2_AcceptedKeptApart ==
    /\ \A x, y \in wrote : x.slot = y.slot => x.job = y.job
    /\ \A c \in calls : ~c.ret => \A x \in wrote : x.job # c.job
    /\ \A c \in Accepted : \E x \in wrote : x.job = c.job /\ x.slot = c.p
    /\ AllJoined =>
          LET k == Cardinality(Accepted) IN
          \A s \in Slots :
              IF s < k
                THEN \E c \in Accepted :
                        /\ c.p = s
                        /\ results[s].depth = c.res.depth
                        /\ results[s].colliderA =
                              (IF algo.swap THEN c.res.colliderB ELSE c.res.colliderA)
                        /\ results[s].colliderB =
                              (IF algo.swap THEN c.res.colliderA ELSE c.res.colliderB)
                ELSE results[s] = Unwritten

\* Witness of C2: all calls have returned, the sink is full of accepted
\* contacts that are not all the same, and some call was turned away.
C2_Witness ==
    /\ AllJoined
    /\ todo = {}
    /\ Cardinality(Accepted) = MaxCollisionCount
    /\ \E c \in calls : ~c.ret
    /\ \E s, t \in Slots : results[s] # results[t]

\* The relabelling of the role swap: sides exchanged, normal negated, depth
\* kept.
Mirror(res) ==
    [posA |-> res.posB, posB |-> res.posA,
     colliderA |-> res.colliderB, colliderB |-> res.colliderA,
     normOnB |-> 0 - res.normOnB, depth |-> res.depth]

\* C7: what the swapping addResult stores for res is what the non-swapping
\* one stores for res with the sides exchanged and the normal negated;
\* relabelling the stored entry once more gives res back.
C7_SwapIsMirror ==
    \A c \in Accepted, x \in wrote :
        (algo.swap /\ x.job = c.job) =>
            /\ x.entry = StorePlain(Mirror(c.res))
            /\ x.entry.depth = c.res.depth
            /\ Mirror(x.entry) = c.res

\* Witness of C7: the swapping variant has stored a contact whose two sides
\* differ.
C7_Witness ==
    /\ algo.swap
    /\ \E x \in wrote :
          /\ x.entry.posA # x.entry.posB
          /\ x.entry.colliderA # x.entry.colliderB
          /\ results[x.slot] = x.entry

(***************************************************************************)
(* SpecGeom: checkCollide is applied once to one point collider of the     *)
(* scanned shape and one collider of the other shape, for every placement  *)
(* of their vertices.                                                      *)
(***************************************************************************)
GeomPositions == 0..3
GeomMultipliers == 1..2
GeomMargins == 1..2

GeomPoint == Collider(Box(0, 0), 1, <<1, 1, 1>>, 1, << [idx |-> 1, weight |-> 2] >>)
GeomOther == Collider(Box(0, 0), 1, <<1, 2, 3>>, 1, << [idx |-> 1, weight |-> 2] >>)

GeomWorlds ==
    { BuildWorld(m.swap, m.T, m.hits, "e_CPURefactored",
                 << [pos |-> pa, mult |-> ma] >>,
                 IF m.T = "vertex"
                   THEN << [pos |-> pb[1], mult |-> mb] >>
                   ELSE [k \in 1..3 |-> [pos |-> pb[k], mult |-> mb]],
                 mp, mo,
                 << Tree(<<GeomPoint>>, 1, FALSE) >>, << Tree(<<GeomOther>>, 1, FALSE) >>,
                 << <<1, 1>> >>, NoBones)
        : m \in Modes, pa \in GeomPositions, ma \in GeomMultipliers,
          pb \in [1..3 -> GeomPositions], mb \in GeomMultipliers,
          mp \in GeomMargins, mo \in GeomMargins }

GeomInit ==
    /\ world \in GeomWorlds
    /\ algo = PassAlgo(1)
    /\ numResults = 0
    /\ results = [s \in Slots |-> Unwritten]
    /\ wk = [w \in Workers |-> IdleWorker]
    /\ todo = {}
    /\ calls = {}
    /\ wrote = {}
    /\ checked = {}
    /\ ret = -1
    /\ merge = <<>>
    /\ manifold = NoManifold
    /\ pc = "geom"

\* checkCollide(a, b, res) on collider 1 of either node.
GeomCheck ==
    /\ pc = "geom"
    /\ LET out == CheckCollide(TreeA(1).cbuf[1], TreeB(1).cbuf[1],
                               ColliderRef(ObjA, "v", 1, 1),
                               ColliderRef(ObjB, ShapeB, 1, 1))
       IN  checked' = {[pass |-> 1, job |-> 1, i |-> 1, j |-> 1, ret |-> out.ret,
                        depth |-> IF out.ret THEN out.res.depth ELSE 0]}
    /\ pc' = "checked"
    /\ UNCHANGED <<world, algo, numResults, results, wk, todo, calls, wrote,
                   ret, merge, manifold>>

GeomNext == GeomCheck

SpecGeom == GeomInit /\ [][GeomNext]_vars

\* C6: for point colliders a of body A and b of body B whose centres are
\* d > 0 apart, the sphere-sphere checkCollide reports overlap iff
\* d < r0 + r1, with r0 = multiplier(a) * marginA and r1 = multiplier(b) *
\* marginB, and the depth it reports is d - (r0 + r1).
C6_SphereSphereDepth ==
    \A c \in checked :
        algo.T = "vertex" =>
            LET sa == world.vpos[0][TreeA(1).cbuf[c.i].vertex]
                sb == world.vpos[1][TreeB(1).cbuf[c.j].vertex]
                d == Abs(sb.pos - sa.pos)
                r0 == sa.mult * world.vshape[0].margin
                r1 == sb.mult * world.vshape[1].margin
            IN  d > 0 =>
                   /\ c.ret <=> d < r0 + r1
                   /\ c.ret => c.depth = d - (r0 + r1)

(***************************************************************************)
(* Spec: processCollision on two bodies whose trees have one collider per  *)
(* node, over every list of up to MaxPairs distinct coarse pairs, with the *)
(* narrow phase fanned out over NumWorkers threads.                        *)
(***************************************************************************)
MaxPairs == 3

\* The node pairs checkCollisionL can report.
NodePairs == { <<1, 1>>, <<1, 2>>, <<2, 2>>, <<3, 3>> }

\* The order in which a walk of the two trees meets the node pairs.
Earlier(p, q) == p[1] < q[1] \/ (p[1] = q[1] /\ p[2] < q[2])

\* The lists of distinct node pairs in that order or in its reverse.
PairLists ==
    UNION { { f \in [1..n -> NodePairs] :
                \/ \A x, y \in 1..n : x < y => Earlier(f[x], f[y])
                \/ \A x, y \in 1..n : x < y => Earlier(f[y], f[x]) }
            : n \in 0..MaxPairs }

PipeBones ==
    [x \in {0, 1} |->
       IF x = 0 THEN << Bone(FALSE, 1, TRUE), Bone(FALSE, 2, TRUE) >>
       ELSE << Bone(FALSE, 3, TRUE), Bone(TRUE, 4, TRUE) >>]

PipeWorlds ==
    { PassWorld(m.swap, m.T, m.hits, alg,
                [k \in 1..Len(PointKindSeq) |-> Tree(<<PointKindSeq[k]>>, 1, FALSE)],
                [k \in 1..Len(OtherKindSeq) |-> Tree(<<OtherKindSeq[k]>>, 1, FALSE)],
                ps, PipeBones)
        : m \in Modes, alg \in Algorithms, ps \in PairLists }

Init ==
    /\ world \in PipeWorlds
    /\ algo = [swap |-> FALSE, T |-> "vertex", pass |-> 0]
    /\ numResults = 0
    /\ results = [s \in Slots |-> Unwritten]
    /\ wk = [w \in Workers |-> IdleWorker]
    /\ todo = {}
    /\ calls = {}
    /\ wrote = {}
    /\ checked = {}
    /\ ret = -1
    /\ merge = Alloc(Len(world.bones[0]), Len(world.bones[1]))
    /\ manifold = NoManifold
    /\ pc = "start"

Next ==
    \/ BeginPass
    \/ Join
    \/ Merge
    \/ ApplyStep
    \/ \E w \in Workers : Start(w) \/ FetchAdd(w) \/ Store(w)

Spec == Init /\ [][Next]_vars

\* The addResult calls of the live pass, and those that returned true.
CallsOfPass == {c \in calls : c.pass = algo.pass}
AcceptedOfPass == {c \in CallsOfPass : c.ret}

\* C3 as stated: the value operator() returns is the number of contacts
\* accepted into the sink, and so never exceeds MaxCollisionCount.
C3_Original ==
    pc = "merge" =>
        /\ ret = Cardinality(AcceptedOfPass)
        /\ ret <= MaxCollisionCount

\* C3 as amended: the value operator() returns is the number of addResult
\* calls made, accepted or not; the smaller of it and MaxCollisionCount is
\* the number of contacts accepted.
C3_ReturnCountsCalls ==
    pc = "merge" =>
        /\ ret = Cardinality(CallsOfPass)
        /\ Min2(ret, MaxCollisionCount) = Cardinality(AcceptedOfPass)

\* Witness of C3: operator() has returned more than MaxCollisionCount.
C3_Witness ==
    /\ pc = "merge"
    /\ ret > MaxCollisionCount
    /\ Cardinality(AcceptedOfPass) = MaxCollisionCount

\* The sink after func has run on the first k coarse pairs one after the
\* other, in list order.
RECURSIVE InOrder(_)
InOrder(k) ==
    IF k = 0 THEN [n |-> 0, arr |-> [s \in Slots |-> Unwritten]]
    ELSE LET prev == InOrder(k - 1)
             f == Func(Pairs[k][1], Pairs[k][2])
         IN  IF prev.n >= MaxCollisionCount \/ ~f.hasResult THEN prev
             ELSE [n |-> prev.n + 1,
                   arr |-> IF prev.n < MaxCollisionCount
                             THEN [prev.arr EXCEPT ![prev.n] =
                                     StoredEntry(algo.swap, f.result)]
                             ELSE prev.arr]

\* The points processCollision adds when the pairs are taken in list order.
PointsInOrder ==
    LET s == InOrder(Len(Pairs))
        c == Min2(s.n, MaxCollisionCount)
        fresh == Alloc(Len(world.bones[0]), Len(world.bones[1]))
    IN  Apply(IF c > 0 THEN DoMerge(fresh, s.arr, c) ELSE fresh).points

\* C5: processCollision is deterministic in its inputs: whatever the
\* scheduling of the workers, the manifold points added are those of any
\* other run on the same inputs, such as the run that takes the coarse
\* pairs one after the other.
C5_Deterministic ==
    (pc = "done" /\ Len(Passes) = 1) => manifold.points = PointsInOrder

(***************************************************************************)
(* Properties of doMerge and apply, over SpecMerge.                        *)
(***************************************************************************)
\* The table merge.alloc leaves, and the count doMerge is called with.
Fresh == Alloc(Len(world.bones[0]), Len(world.bones[1]))
Stored == Count(ret)

\* The table before and after doMerge's loop body for contact i.
Before(i) == DoMerge(Fresh, results, i)
After(i) == DoMerge(Fresh, results, i + 1)

\* The bone slot pairs of a contact's two colliders.
SlotPairs(res) ==
    (1..Len(Deref(res.colliderA).bones)) \X (1..Len(Deref(res.colliderB).bones))

\* Slot pair k of the contact names the bones of cell ij.
Names(res, k, ij) ==
    /\ Deref(res.colliderA).bones[k[1]].idx = ij[1]
    /\ Deref(res.colliderB).bones[k[2]].idx = ij[2]

\* Slot pair k has both weights strictly above the bones' thresholds and
\* bones that are not both kinematic.
Passing(res, k) ==
    LET sa == Deref(res.colliderA).bones[k[1]]
        sb == Deref(res.colliderB).bones[k[2]]
    IN  /\ sa.weight > world.bones[0][sa.idx].weightThreshold
        /\ sb.weight > world.bones[1][sb.idx].weightThreshold
        /\ ~(world.bones[0][sa.idx].isKinematic /\ world.bones[1][sb.idx].isKinematic)

Eligible(res, ij) == \E k \in SlotPairs(res) : Names(res, k, ij) /\ Passing(res, k)

\* C11: doMerge changes the cell (boneA, boneB) for a contact only if boneA
\* influences colliderA and boneB influences colliderB with weights strictly
\* above their thresholds and the two bones are not both kinematic; every
\* other cell is as the contact found it.
C11_OnlyEligibleCellsChange ==
    pc = "apply" =>
        /\ \A i \in 0..(Stored - 1), ij \in DOMAIN merge :
              After(i)[ij] # Before(i)[ij] => Eligible(results[i], ij)
        /\ \A ij \in DOMAIN merge :
              merge[ij] # ZeroCell => \E i \in 0..(Stored - 1) : Eligible(results[i], ij)

\* Witness of C11: a contact has changed a cell and left alone a cell that
\* its colliders' bone slots name with a weight at the threshold, and one
\* they name whose bones are both kinematic.
C11_Witness ==
    /\ pc = "apply"
    /\ \E i \in 0..(Stored - 1), ij \in DOMAIN merge :
          /\ merge[ij] # ZeroCell
          /\ After(i)[ij] # Before(i)[ij]
          /\ \E x \in DOMAIN merge, k \in SlotPairs(results[i]) :
                /\ Names(results[i], k, x)
                /\ Deref(results[i].colliderA).bones[k[1]].weight =
                      world.bones[0][x[1]].weightThreshold
                /\ After(i)[x] = Before(i)[x]
    /\ \E i \in 0..(Stored - 1), y \in DOMAIN merge : \E k \in SlotPairs(results[i]) :
          /\ ~Shallow(results[i])
          /\ Names(results[i], k, y)
          /\ world.bones[0][y[1]].isKinematic /\ world.bones[1][y[2]].isKinematic
          /\ merge[y] = ZeroCell

\* A contact at which doMerge's scan ends: not deeper than epsilon, or
\* between colliders whose larger flexible is below epsilon.
Stops(res) ==
    \/ res.depth >= -FLT_EPSILON
    \/ Max2(Deref(res.colliderA).flexible, Deref(res.colliderB).flexible) < FLT_EPSILON

\* The index of the first such contact among the Stored ones, or Stored.
StopIndex ==
    LET S == {i \in 0..(Stored - 1) : Stops(results[i])}
    IN  IF S = {} THEN Stored ELSE CHOOSE i \in S : \A x \in S : i <= x

\* Some contact contributed to the cell.
Contributed(ij) == \E i \in 0..(StopIndex - 1) : Eligible(results[i], ij)

\* C12: a cell no contact contributed to has weight exactly zero when apply
\* runs and gets no manifold point; no cell's weight is ever negative.
C12_UntouchedCellsStayZero ==
    /\ \A ij \in DOMAIN merge : merge[ij].weight >= 0
    /\ pc \in {"apply", "done"} =>
          \A ij \in DOMAIN merge :
              ~Contributed(ij) =>
                  /\ merge[ij].weight = 0
                  /\ \A pt \in manifold.points : <<pt.boneA, pt.boneB>> # ij

\* Witness of C12: apply has added a point for some cell while another cell,
\* named by the bone slots of a stored contact, had no contribution.
C12_Witness ==
    /\ pc = "done"
    /\ manifold.points # {}
    /\ \E ij \in DOMAIN merge, i \in 0..(Stored - 1) :
          /\ ~Contributed(ij)
          /\ \E k \in SlotPairs(results[i]) : Names(results[i], k, ij)

(***************************************************************************)
(* Properties of the fan-out under overflow, over Spec.                    *)
(***************************************************************************)
\* The writes of the live pass.
WritesOfPass == {x \in wrote : x.pass = algo.pass}

\* The best-of-pair contact of coarse pair j as the sink labels it.
BestEntry(j) ==
    LET f == Func(Pairs[j][1], Pairs[j][2])
    IN  IF algo.swap THEN Mirror(f.result) ELSE f.result

\* The run is not stuck: processCollision is between two of its calls, or a
\* worker is inside addResult, or a worker can take a pair, or all pairs
\* are done and operator() can return.
Proceeds ==
    \/ pc \in {"start", "merge", "apply", "done"}
    \/ /\ pc = "run"
       /\ \/ \E w \in Workers : wk[w].pc \in {"fetch", "store"}
          \/ \E w \in Workers : wk[w].pc = "idle" /\ NextJobs(w) # {}
          \/ todo = {} /\ \A w \in Workers : wk[w].pc = "idle"

\* C13: with more contacts found than MaxCollisionCount the run goes on to
\* its end, every contact in the sink is the best-of-pair contact of a
\* coarse pair, no coarse pair has two, and a stored contact stays as it
\* was written whatever is dropped afterwards.
C13_OverflowKeepsStoredContacts ==
    /\ Proceeds
    /\ algo.pass = 1 =>
          /\ \A n \in 1..Len(Pairs) :
                LET f == Func(Pairs[n][1], Pairs[n][2])
                    best == BestEntry(n)
                IN  \A x \in WritesOfPass :
                        x.job = n =>
                            /\ f.hasResult
                            /\ x.entry = best
                            /\ results[x.slot] = x.entry
          /\ \A x, y \in WritesOfPass : (x.job = y.job \/ x.slot = y.slot) => x = y
          /\ \A s \in Slots :
                results[s] # Unwritten => \E x \in WritesOfPass : x.slot = s

\* Witness of C13: operator() has returned, the sink is full and a contact
\* that differs from every stored one was dropped.
C13_Witness ==
    /\ pc = "merge"
    /\ \A s \in Slots : results[s] # Unwritten
    /\ \E c \in CallsOfPass :
          /\ ~c.ret
          /\ \A s \in Slots : results[s] # StoredEntry(algo.swap, c.res)

(***************************************************************************)
(* Properties of the per-pair function, over SpecRefine.                   *)
(***************************************************************************)
\* C14: for a coarse pair func starts on with room in the sink, the variant
\* run submits what either variant computes, and the two variants compute
\* the same: both nothing, or contacts between the same two colliders with
\* the same depth, ties for the deepest included.
C14_VariantsAgree ==
    (pc = "merge" /\ CounterAtStart < MaxCollisionCount) =>
        LET r == FuncOf("e_CPURefactored", 1, 1)
            c == FuncOf("e_CPU", 1, 1)
        IN  /\ \A x \in Submitted : x.res = Func(1, 1).result
            /\ r.hasResult = c.hasResult
            /\ r.hasResult =>
                  /\ r.result.depth = c.result.depth
                  /\ r.result.colliderA = c.result.colliderA
                  /\ r.result.colliderB = c.result.colliderB

(***************************************************************************)
(* Properties of the scratch lists, over Spec.                             *)
(***************************************************************************)
Range(q) == {q[k] : k \in 1..Len(q)}

\* C15: a worker outside func has empty scratch lists, so they are empty
\* when it starts a pair and when it has finished one, whether func
\* returned early, found nothing or called addResult; inside func the lists
\* hold the candidates of the worker's own pair and nothing else, and every
\* pair of colliders tested for a coarse pair is made of its candidates.
C15_ScratchListsPerPair ==
    /\ \A w \in Workers :
          wk[w].pc = "idle" => wk[w].listA = <<>> /\ wk[w].listB = <<>>
    /\ \A w \in Workers :
          wk[w].pc \in {"fetch", "store"} =>
              LET f == Func(Pairs[wk[w].job][1], Pairs[wk[w].job][2])
              IN  wk[w].listA = f.listA /\ wk[w].listB = f.listB
    /\ \A n \in 1..(IF algo.pass = 0 THEN 0 ELSE Len(Pairs)) :
          LET a == TreeA(Pairs[n][1])
              b == TreeB(Pairs[n][2])
              scanned == Range(Func(Pairs[n][1], Pairs[n][2]).scanned)
              ofA == world.alg = "e_CPURefactored" \/ ScanSize(a, b) <= ScanSize(b, a)
              ofB == world.alg = "e_CPURefactored" \/ ScanSize(a, b) > ScanSize(b, a)
          IN  \A c \in checked :
                  (c.pass = algo.pass /\ c.job = n) =>
                      /\ ofA => c.i \in scanned
                      /\ ofB => c.j \in scanned

\* Witness of C15: one worker is inside addResult with its lists filled
\* while another is outside func, after one pair has ended with a call of
\* addResult and another without.
C15_Witness ==
    /\ pc = "run"
    /\ \E w \in Workers : wk[w].pc = "fetch" /\ wk[w].listA # <<>> /\ wk[w].listB # <<>>
    /\ \E w \in Workers : wk[w].pc = "idle"
    /\ \E c \in calls : c.pass = algo.pass
    /\ \E j \in 1..Len(Pairs) :
          /\ j \notin todo
          /\ \A w \in Workers : wk[w].job # j
          /\ \A c \in calls : c.job # j

(***************************************************************************)
(* Properties of doMerge's scan and of apply's requests, over SpecMerge.   *)
(***************************************************************************)
\* The table after the loop body has run for each of the first k contacts,
\* none of them ending the scan.
RECURSIVE FoldContacts(_)
FoldContacts(k) ==
    IF k = 0 THEN Fresh
    ELSE LET res == results[k - 1]
         IN  MergeContact(FoldContacts(k - 1), res,
                          Max2(Deref(res.colliderA).flexible,
                               Deref(res.colliderB).flexible))

\* C16: doMerge takes the contacts in array order and accumulates contact i
\* iff no contact at an index <= i is within epsilon of touching or between
\* inflexible colliders; the first such contact ends the scan, and no
\* contact at or after it changes a cell.
C16_ScanEndsAtFirstStop ==
    pc = "apply" =>
        /\ merge = FoldContacts(StopIndex)
        /\ \A i \in 0..(Stored - 1) :
              /\ After(i) # Before(i) => i < StopIndex
              /\ (i < StopIndex /\ \E ij \in DOMAIN merge : Eligible(results[i], ij))
                    => After(i) # Before(i)

\* Witness of C16: the scan ended before a contact that is deep, flexible
\* and has a cell to contribute to.
C16_Witness ==
    /\ pc = "apply"
    /\ \E i \in 0..(Stored - 1) :
          /\ i > StopIndex
          /\ ~Stops(results[i])
          /\ \E ij \in DOMAIN merge : Eligible(results[i], ij)

\* C17: apply requests a manifold for a cell only once the cell has passed
\* every skip check, so every request is followed by one added point.
C17_RequestOnlyForPoints ==
    pc = "done" =>
        /\ \A ij \in manifold.requests :
              \E pt \in manifold.points : <<pt.boneA, pt.boneB>> = ij
        /\ Cardinality(manifold.requests) = Cardinality(manifold.points)

(***************************************************************************)
(* Properties of the scan ranges and of the triangle test, over            *)
(* SpecRefine.                                                             *)
(***************************************************************************)
\* The number of leading colliders of tree t that take part when the other
\* tree of the pair is other.
InRange(t, other) == IF other.isKinematic THEN t.dynCollider ELSE t.numCollider

\* C18: for a pair func starts on with room in the sink, no collider of A
\* beyond A.dynCollider is tested or submitted when B is kinematic, none of
\* B beyond B.dynCollider when A is kinematic, and otherwise the whole
\* range up to numCollider takes part: every pair of colliders in range
\* whose boxes intersect is tested.
C18_KinematicSubRange ==
    (pc = "merge" /\ CounterAtStart < MaxCollisionCount) =>
        LET a == TreeA(1)
            b == TreeB(1)
        IN  /\ \A c \in checked : c.i <= InRange(a, b) /\ c.j <= InRange(b, a)
            /\ \A x \in Submitted :
                  /\ x.res.colliderA.idx <= InRange(a, b)
                  /\ x.res.colliderB.idx <= InRange(b, a)
            /\ \A i \in 1..InRange(a, b), j \in 1..InRange(b, a) :
                  CollideWith(a.aabb[i], b.aabb[j]) =>
                      \E c \in checked : c.i = i /\ c.j = j

\* Witness of C18: B is kinematic, a contact was submitted, and a collider
\* of A beyond A.dynCollider overlaps a collider of B.
C18_Witness ==
    /\ pc = "merge"
    /\ TreeB(1).isKinematic
    /\ Submitted # {}
    /\ \E i \in (TreeA(1).dynCollider + 1)..TreeA(1).numCollider,
          j \in 1..TreeB(1).numCollider :
          /\ CollideWith(TreeA(1).aabb[i], TreeB(1).aabb[j])
          /\ CheckCollide(TreeA(1).cbuf[i], TreeB(1).cbuf[j],
                          ColliderRef(ObjA, "v", 1, i), ColliderRef(ObjB, ShapeB, 1, j)).ret

\* The three vertices of triangle collider col of the other shape coincide.
Degenerate(col) ==
    /\ v1[col.vertices[1]].pos = v1[col.vertices[2]].pos
    /\ v1[col.vertices[2]].pos = v1[col.vertices[3]].pos

\* C19: a degenerate triangle never yields a contact: checkCollide returns
\* false for it, no contact handed to the sink or stored in it names such
\* a triangle, and the other collider pairs of the coarse pair are tested
\* and their best contact submitted as usual.
C19_DegenerateTriangleNoContact ==
    algo.T = "triangle" =>
        /\ \A c \in checked : Degenerate(TreeB(1).cbuf[c.j]) => ~c.ret
        /\ \A x \in calls : ~Degenerate(Deref(x.res.colliderB))
        /\ \A x \in wrote :
              \A r \in {x.entry.colliderA, x.entry.colliderB} :
                  r.shape = "t" => ~Degenerate(Deref(r))
        /\ (pc = "merge" /\ CounterAtStart < MaxCollisionCount) =>
              /\ \A i \in 1..InRange(TreeA(1), TreeB(1)),
                    j \in 1..InRange(TreeB(1), TreeA(1)) :
                    CollideWith(TreeA(1).aabb[i], TreeB(1).aabb[j]) =>
                        \E c \in checked : c.i = i /\ c.j = j
              /\ (\E c \in checked : c.ret) => Submitted # {}

\* Witness of C19: a degenerate triangle within reach of a sphere was
\* tested, and a contact with another triangle of the pair was stored.
C19_Witness ==
    /\ algo.T = "triangle"
    /\ pc = "merge"
    /\ wrote # {}
    /\ \E c \in checked :
          LET a == TreeA(1).cbuf[c.i]
              b == TreeB(1).cbuf[c.j]
          IN  /\ Degenerate(b)
              /\ Abs(v1[b.vertices[1]].pos - v0[a.vertex].pos)
                    < v0[a.vertex].mult * sp0.margin
                      + v1[b.vertices[1]].mult * sp1.margin

(***************************************************************************)
(* The sign convention from contact to manifold point, over SpecMerge.     *)
(***************************************************************************)
\* max(colliderA->flexible, colliderB->flexible) of a contact.
FlexibleOf(res) ==
    Max2(Deref(res.colliderA).flexible, Deref(res.colliderB).flexible)

\* The accumulations into cell ij: contact index and bone slot pair.
Contributions(ij) ==
    UNION { { <<i, k>> : k \in { x \in SlotPairs(results[i]) :
                                   Names(results[i], x, ij) /\ Passing(results[i], x) } }
            : i \in 0..(StopIndex - 1) }

VPosBoth == VPosOther \o VPosPoint

\* The point colliders over VPosBoth.
BothPointSeq ==
    [k \in 1..Len(PointKindSeq) |->
        [PointKindSeq[k] EXCEPT !.vertex = @ + Len(VPosOther)]]

\* The coarse pair lists in the order of the walk that hold its first or
\* its last node pairs, with none left out in between.
WalkLists ==
    { f \in PairLists :
        /\ \A x, y \in 1..Len(f) : x < y => Earlier(f[x], f[y])
        /\ \/ \A x \in 1..Len(f) : \A q \in NodePairs :
                  Earlier(q, f[x]) => \E y \in 1..Len(f) : f[y] = q
           \/ \A x \in 1..Len(f) : \A q \in NodePairs :
                  Earlier(f[x], q) => \E y \in 1..Len(f) : f[y] = q }

\* Two bodies with per-triangle shapes: asPerTriangleShape() and
\* asPerVertexShape() are both non-null for either, and each pass has its
\* own coarse pairs.
TwoPassWorlds ==
    { [kind |-> [x \in {0, 1} |-> "triangle"],
       degenerateHits |-> FALSE, alg |-> alg,
       vpos |-> [x \in {0, 1} |-> VPosBoth],
       vshape |-> [x \in {0, 1} |->
                     [margin |-> 1, penetration |-> 0,
                      trees |-> [k \in 1..Len(BothPointSeq) |->
                                   Tree(<<BothPointSeq[k]>>, 1, FALSE)]]],
       tshape |-> [x \in {0, 1} |->
                     [margin |-> 1, penetration |-> 1,
                      trees |-> [k \in 1..Len(OtherKindSeq) |->
                                   Tree(<<OtherKindSeq[k]>>, 1, FALSE)]]],
       pairs |-> << ps1, ps2 >>,
       bones |-> PipeBones]
        : alg \in Algorithms, ps1 \in WalkLists, ps2 \in WalkLists }

PassesWorlds ==
    { w \in PipeWorlds : w.pairs[1] \in WalkLists } \cup TwoPassWorlds

PassesInit ==
    /\ world \in PassesWorlds
    /\ algo = [swap |-> FALSE, T |-> "vertex", pass |-> 0]
    /\ numResults = 0
    /\ results = [s \in Slots |-> Unwritten]
    /\ wk = [w \in Workers |-> IdleWorker]
    /\ todo = {}
    /\ calls = {}
    /\ wrote = {}
    /\ checked = {}
    /\ ret = -1
    /\ merge = Alloc(Len(world.bones[0]), Len(world.bones[1]))
    /\ manifold = NoManifold
    /\ pc = "start"

SpecPasses == PassesInit /\ [][Next]_vars

(***************************************************************************)
(* Properties of the sides of a contact, over SpecPasses.                  *)
(***************************************************************************)
\* The shapes processCollision<T0,T1> hands to doMerge as shape0 (of
\* body0) and shape1 (of body1) in the live pass.
Shape0 == IF algo.swap THEN "t" ELSE "v"
Shape1 == IF algo.swap THEN "v" ELSE ShapeB

\* pos lies on the collider r points to: within the sphere of a point
\* collider, or within the margin of a triangle's extent.
OnCollider(pos, r) ==
    LET c == Deref(r)
        vp == world.vpos[r.body]
    IN  IF r.shape = "v"
          THEN Abs(pos - vp[c.vertex].pos)
                  <= vp[c.vertex].mult * world.vshape[r.body].margin
          ELSE LET p0 == vp[c.vertices[1]]
                   p1 == vp[c.vertices[2]]
                   p2 == vp[c.vertices[3]]
                   margin == ((p0.mult + p1.mult + p2.mult) \div 3)
                                 * world.tshape[r.body].margin
                   lo == Min2(p0.pos, Min2(p1.pos, p2.pos))
                   hi == Max2(p0.pos, Max2(p1.pos, p2.pos))
               IN  lo - margin <= pos /\ pos <= hi + margin

\* C21: in each of the four combinations of shape kinds, every contact
\* doMerge(shape0, shape1, ...) is handed has colliderA in body0's shape0
\* and posA on it, and colliderB in body1's shape1 and posB on it.
C21_SidesPreserved ==
    pc = "merge" =>
        \A s \in 0..(Stored - 1) :
            LET r == results[s]
            IN  /\ r.colliderA.body = 0 /\ r.colliderA.shape = Shape0
                /\ r.colliderB.body = 1 /\ r.colliderB.shape = Shape1
                /\ OnCollider(r.posA, r.colliderA)
                /\ OnCollider(r.posB, r.colliderB)

(***************************************************************************)
(* Properties of the result array across passes, over SpecPasses.          *)
(***************************************************************************)
\* The workers inside addResult that have taken a slot and not yet
\* written it.
Storing == {w \in Workers : wk[w].pc = "store"}

\* C22: in each pass the counter counts the addResult calls of that pass
\* only, from 0; once the workers have joined, every slot doMerge reads
\* (index below the smaller of the returned count and MaxCollisionCount)
\* holds what an addResult call of that same pass wrote there, and in a
\* second pass no slot read holds a contact of the first pass.
C22_MergeReadsFreshSlots ==
    /\ pc = "run" => numResults = Cardinality(CallsOfPass) + Cardinality(Storing)
    /\ pc = "merge" =>
          \A s \in 0..(Stored - 1) :
              /\ \E x \in WritesOfPass : x.slot = s /\ results[s] = x.entry
              /\ \A x \in wrote : x.pass < algo.pass => results[s] # x.entry

\* Witness of C22: the second pass of two per-triangle bodies has joined
\* with a contact to merge, and a slot past those doMerge reads still
\* holds a contact of the first pass.
C22_Witness ==
    /\ pc = "merge"
    /\ algo.pass = 2
    /\ Stored > 0
    /\ \E s \in Slots :
          /\ s >= Stored
          /\ \E x \in wrote : x.pass = 1 /\ x.slot = s /\ results[s] = x.entry

====
